---- MODULE Spec2Model ----
(***************************************************************************)
(* Model of app/ingest_csv.py: the CSV-to-Postgres ingest pipeline         *)
(* (process_csvs, normalize_column_names, process_row, normalize_entry,    *)
(* insert_into_db, log_error_and_exit), as run by Python 3.                *)
(*                                                                         *)
(* Encoding of Python values                                               *)
(*   - a header label and a canonical column name are TLA+ strings (the    *)
(*     code only compares them and uses them as dictionary keys);          *)
(*   - a str whose characters the code inspects (a data row handed to      *)
(*     process_row, a cell value) is a sequence of one-character strings;  *)
(*   - a list is a sequence; csv.reader yields one list per line and the   *)
(*     empty list for a blank line;                                        *)
(*   - a dict is a sequence of <<key, value>> pairs with distinct keys, in *)
(*     insertion order.                                                    *)
(***************************************************************************)
EXTENDS Integers, Sequences, FiniteSets, TLC

\* ------------------------------------------------------------------------
\* Bounds of the model
\* ------------------------------------------------------------------------
MaxFiles == 2

MaxRows == 2

MaxCols == 2

MaxCells == 2

\* ------------------------------------------------------------------------
\* Static configuration
\* ------------------------------------------------------------------------
\* expenditure_column_conversions: header label -> database column
expenditure_column_conversions ==
    [h \in {"BIOGUIDE_ID", "OFFICE", "QUARTER", "SORT SEQUENCE", "PROGRAM",
            "CATEGORY", "DATE", "PAYEE", "START DATE", "END DATE", "PURPOSE",
            "AMOUNT", "YEAR", "RECIP (orig.)", ""} |->
        CASE h = "BIOGUIDE_ID"   -> "bioguide_id"
          [] h = "OFFICE"        -> "office"
          [] h = "QUARTER"       -> "fiscal_quarter"
          [] h = "SORT SEQUENCE" -> "sort_sequence"
          [] h = "PROGRAM"       -> "program_type"
          [] h = "CATEGORY"      -> "expense_category"
          [] h = "DATE"          -> "record_date"
          [] h = "PAYEE"         -> "payee"
          [] h = "START DATE"    -> "start_date"
          [] h = "END DATE"      -> "end_date"
          [] h = "PURPOSE"       -> "purpose"
          [] h = "AMOUNT"        -> "amount"
          [] h = "YEAR"          -> "fiscal_year"
          [] h = "RECIP (orig.)" -> "original_recipient"
          [] h = ""              -> "old_payee"]

HeaderLabels == DOMAIN expenditure_column_conversions

CanonicalFields == {expenditure_column_conversions[h] : h \in HeaderLabels}

\* ------------------------------------------------------------------------
\* Python str primitives, on sequences of characters
\* ------------------------------------------------------------------------
\* The characters of the model are those of Latin-1 (U+0000 to U+00FF).
\* Decimal digits: what int(), float() and the \d of a regular expression take
DecimalDigits == {"0", "1", "2", "3", "4", "5", "6", "7", "8", "9"}

\* characters for which str.isdigit() holds: the superscript digits as well
DigitChars == DecimalDigits \cup {"²", "³", "¹"}

\* characters for which str.isnumeric() holds: the vulgar fractions as well
NumericChars == DigitChars \cup {"¼", "½", "¾"}

\* characters for which str.isspace() holds: what str.split() separates on
\* (tab, newline, carriage return, form feed, space, then U+000B, U+001C to
\* U+001F, U+0085, U+00A0)
Whitespace == {"\t", "\n", "\r", "\f", " ", "", "", "", "", "", "", " "}

\* characters float() ignores around a numeral: those of Whitespace but the
\* four separators U+001C to U+001F
FloatSpace == {"\t", "\n", "\r", "\f", " ", "", "", " "}

DigitValue(c) ==
    CASE c = "0" -> 0 [] c = "1" -> 1 [] c = "2" -> 2 [] c = "3" -> 3
      [] c = "4" -> 4 [] c = "5" -> 5 [] c = "6" -> 6 [] c = "7" -> 7
      [] c = "8" -> 8 [] c = "9" -> 9

DigitChar(n) == <<"0", "1", "2", "3", "4", "5", "6", "7", "8", "9">>[n + 1]

\* str.isdigit(): non-empty and every character a digit character
isdigit(s) == Len(s) > 0 /\ \A i \in 1..Len(s) : s[i] \in DigitChars

\* str.isnumeric(): non-empty and every character a numeric character
isnumeric(s) == Len(s) > 0 /\ \A i \in 1..Len(s) : s[i] \in NumericChars

\* int(s) for a string of decimal digits
RECURSIVE ToNat(_)
ToNat(s) == IF s = <<>> THEN 0
            ELSE 10 * ToNat(SubSeq(s, 1, Len(s) - 1)) + DigitValue(s[Len(s)])

\* index of the first character of s that is in set cs, Len(s)+1 if none
FirstIn(s, cs) ==
    IF \E i \in 1..Len(s) : s[i] \in cs
    THEN CHOOSE i \in 1..Len(s) : s[i] \in cs /\ \A j \in 1..(i-1) : s[j] \notin cs
    ELSE Len(s) + 1

\* str.split(sep): the pieces between separators, empty pieces kept
RECURSIVE split(_, _)
split(s, sep) ==
    LET i == FirstIn(s, {sep})
    IN  IF i > Len(s) THEN <<s>>
        ELSE <<SubSeq(s, 1, i - 1)>> \o split(SubSeq(s, i + 1, Len(s)), sep)

\* str.split(): the maximal runs of non-whitespace characters
RECURSIVE split_whitespace(_)
split_whitespace(s) ==
    IF s = <<>> THEN <<>>
    ELSE IF s[1] \in Whitespace THEN split_whitespace(Tail(s))
    ELSE LET n == FirstIn(s, Whitespace)
         IN  <<SubSeq(s, 1, n - 1)>> \o split_whitespace(SubSeq(s, n, Len(s)))

\* s without the characters float() ignores at its two ends
strip(s) ==
    IF \A i \in 1..Len(s) : s[i] \in FloatSpace THEN <<>>
    ELSE SubSeq(s,
                CHOOSE i \in 1..Len(s) :
                    s[i] \notin FloatSpace
                    /\ \A j \in 1..(i - 1) : s[j] \in FloatSpace,
                CHOOSE i \in 1..Len(s) :
                    s[i] \notin FloatSpace
                    /\ \A j \in (i + 1)..Len(s) : s[j] \in FloatSpace)

\* sep.join(parts)
RECURSIVE join(_, _)
join(parts, sep) ==
    IF parts = <<>> THEN <<>>
    ELSE IF Len(parts) = 1 THEN parts[1]
    ELSE parts[1] \o <<sep>> \o join(Tail(parts), sep)

\* letters compared without regard to case (ASCII letters)
Lowers == <<"a","b","c","d","e","f","g","h","i","j","k","l","m",
            "n","o","p","q","r","s","t","u","v","w","x","y","z">>

Uppers == <<"A","B","C","D","E","F","G","H","I","J","K","L","M",
            "N","O","P","Q","R","S","T","U","V","W","X","Y","Z">>

ToLower(c) == IF \E i \in 1..26 : c = Uppers[i]
              THEN Lowers[CHOOSE i \in 1..26 : c = Uppers[i]] ELSE c

lower(s) == <<>> \o [i \in 1..Len(s) |-> ToLower(s[i])]

\* Results of an evaluation that may raise
Ok(v) == [ok |-> TRUE, val |-> v, exc |-> ""]

Raise(e) == [ok |-> FALSE, val |-> <<>>, exc |-> e]

\* Python values stored in a record
PyStr(s) == [t |-> "str", v |-> s]

PyDatetime(y, m, d) == [t |-> "datetime", v |-> <<y, m, d>>]

\* the str of a result that is a sequence of characters
AsStr(r) == IF r.ok THEN Ok(PyStr(r.val)) ELSE r

\* truth value of a Python value: a str is true iff non-empty, a datetime always
Truthy(x) == IF x.t = "str" THEN x.v # <<>> ELSE TRUE

\* ------------------------------------------------------------------------
\* datetime.strptime(value, '%B-%d-%Y')
\* ------------------------------------------------------------------------
MonthNames ==
    << <<"J","a","n","u","a","r","y">>,
       <<"F","e","b","r","u","a","r","y">>,
       <<"M","a","r","c","h">>,
       <<"A","p","r","i","l">>,
       <<"M","a","y">>,
       <<"J","u","n","e">>,
       <<"J","u","l","y">>,
       <<"A","u","g","u","s","t">>,
       <<"S","e","p","t","e","m","b","e","r">>,
       <<"O","c","t","o","b","e","r">>,
       <<"N","o","v","e","m","b","e","r">>,
       <<"D","e","c","e","m","b","e","r">> >>

IsLeap(y) == (y % 4 = 0 /\ y % 100 # 0) \/ y % 400 = 0

DaysInMonth(y, m) ==
    IF m = 2 THEN (IF IsLeap(y) THEN 29 ELSE 28)
    ELSE IF m \in {4, 6, 9, 11} THEN 30 ELSE 31

\* the day of '%d': 30 or 31, 10 to 29, 01 to 09, 1 to 9, or a space and 1 to 9
IsDayField(p) ==
    LET nonzero == DecimalDigits \ {"0"}
    IN  \/ Len(p) = 1 /\ p[1] \in nonzero
        \/ /\ Len(p) = 2
           /\ \/ p[1] = "3" /\ p[2] \in {"0", "1"}
              \/ p[1] \in {"1", "2"} /\ p[2] \in DecimalDigits
              \/ p[1] \in {"0", " "} /\ p[2] \in nonzero

\* Month name (matched without regard to case), '-', the day, '-', exactly
\* four decimal digits of year; anything else, a day outside the month or
\* the year 0 raises ValueError.
strptime(value) ==
    LET parts == split(value, "-")
        IsMonth(m) == lower(MonthNames[m]) = lower(parts[1])
    IN  IF Len(parts) # 3 THEN Raise("ValueError")
        ELSE IF ~ \E m \in 1..12 : IsMonth(m) THEN Raise("ValueError")
        ELSE IF ~ IsDayField(parts[2]) THEN Raise("ValueError")
        ELSE IF ~ (Len(parts[3]) = 4 /\ \A i \in 1..4 : parts[3][i] \in DecimalDigits)
        THEN Raise("ValueError")
        ELSE LET m == CHOOSE m \in 1..12 : IsMonth(m)
                 d == ToNat(SelectSeq(parts[2], LAMBDA c : c # " "))
                 y == ToNat(parts[3])
             IN  IF y < 1 \/ d > DaysInMonth(y, m)
                 THEN Raise("ValueError")
                 ELSE Ok(PyDatetime(y, m, d))

\* ------------------------------------------------------------------------
\* format(float(value), '.2f')
\* ------------------------------------------------------------------------
\* Numbers are handled digit by digit, so that no length is out of reach:
\* a decimal numeral is a sequence of digits 0..9 and a binary one a
\* sequence of bits, most significant first.  A long run of steps (halving
\* a numeral bit after bit, doubling it bit after bit) is split in two
\* halves, the first worked out before the second starts, so that the
\* evaluation nests no deeper than the logarithm of the run.
IsZeroSeq(D) == \A i \in 1..Len(D) : D[i] = 0

Zeros(n) == <<>> \o [i \in 1..n |-> 0]

DropLeadingZeros(D) ==
    IF IsZeroSeq(D) THEN <<>>
    ELSE SubSeq(D, CHOOSE i \in 1..Len(D) :
                       D[i] # 0 /\ \A j \in 1..(i - 1) : D[j] = 0, Len(D))

\* e, once x has been worked out
Strict(x, e) == IF x = x THEN e ELSE e

\* D div 2 on decimal digits: long division, where the remainder carried
\* into a digit is the parity of the digit before it
Halve(D) ==
    DropLeadingZeros([i \in 1..Len(D) |->
        (10 * (IF i > 1 THEN D[i - 1] % 2 ELSE 0) + D[i]) \div 2])

\* the n low bits of the integer with decimal digits D (fewer when D runs
\* out before), and the digits of D div 2^n
RECURSIVE LowBits(_, _)
LowBits(D, n) ==
    IF D = <<>> \/ n = 0 THEN [bits |-> <<>>, rest |-> D]
    ELSE IF n = 1 THEN [bits |-> <<D[Len(D)] % 2>>, rest |-> Halve(D)]
    ELSE LET lo == LowBits(D, n \div 2)
             hi == LowBits(lo.rest, n - n \div 2)
         IN  Strict(lo, [bits |-> hi.bits \o Zeros(n \div 2 - Len(lo.bits))
                                          \o lo.bits,
                         rest |-> hi.rest])

\* the bits of the integer with decimal digits D (none for zero); a decimal
\* digit is worth less than four bits
IntBits(D) == DropLeadingZeros(LowBits(DropLeadingZeros(D), 4 * Len(D)).bits)

\* 2 * D + b on decimal digits: the carry out, and the digits, same length.
\* A digit takes a carry exactly when the digit after it is 5 or more.
TimesTwoPlus(D, b) ==
    [carry  |-> IF D = <<>> THEN b ELSE IF D[1] >= 5 THEN 1 ELSE 0,
     digits |-> <<>> \o [i \in 1..Len(D) |->
                    (2 * D[i] + (IF i = Len(D) THEN b
                                 ELSE IF D[i + 1] >= 5 THEN 1 ELSE 0)) % 10]]

\* the first n bits of the fraction 0.F (doubling F carries out the next
\* bit), and the digits of what is left after them
RECURSIVE FracBits(_, _)
FracBits(F, n) ==
    IF IsZeroSeq(F) \/ n = 0 THEN [bits |-> Zeros(n), rest |-> F]
    ELSE IF n = 1 THEN LET t == TimesTwoPlus(F, 0)
                       IN  [bits |-> <<t.carry>>, rest |-> t.digits]
    ELSE LET hi == FracBits(F, n \div 2)
             lo == FracBits(hi.rest, n - n \div 2)
         IN  Strict(hi, [bits |-> hi.bits \o lo.bits, rest |-> lo.rest])

\* the fraction bits looked at: a double holds 53 significant bits, and a
\* value under 2^-67 prints as zero whatever its bits
FracLen == 120

\* B + 1 on bits
IncBits(B) ==
    IF \A i \in 1..Len(B) : B[i] = 1 THEN <<1>> \o Zeros(Len(B))
    ELSE LET z == CHOOSE i \in 1..Len(B) :
                      B[i] = 0 /\ \A j \in (i + 1)..Len(B) : B[j] = 1
         IN  <<>> \o [i \in 1..Len(B) |->
                        IF i < z THEN B[i] ELSE IF i = z THEN 1 ELSE 0]

\* the bits B with the binary point after the first point of them, zeros
\* filling up to the point when B stops short of it
Pointed(B, point) ==
    [int  |-> IF point <= Len(B) THEN SubSeq(B, 1, point)
              ELSE B \o Zeros(point - Len(B)),
     frac |-> SubSeq(B, point + 1, Len(B))]

\* all[1..last], one more in the last place when up (a carry out of the
\* first bit moves the point), point bits of all before the binary point
Carried(all, point, last, up) ==
    IF ~ up THEN Pointed(SubSeq(all, 1, last), point)
    ELSE Pointed(IncBits(SubSeq(all, 1, last)),
                 IF \A i \in 1..last : all[i] = 1 THEN point + 1 ELSE point)

\* the bits all, point of them before the binary point and more of the
\* value left after them when rest, kept down to bit last: the bit after
\* rounds up when anything follows it or, on a tie, when bit last is odd
Kept(all, point, rest, last) ==
    IF Len(all) <= last THEN Pointed(all, point)
    ELSE Carried(all, point, last,
                 /\ all[last + 1] = 1
                 /\ \/ rest
                    \/ \E i \in (last + 2)..Len(all) : all[i] = 1
                    \/ all[last] = 1)

\* 53 significant bits from the first 1 of all on
Significant(all, point, rest) ==
    IF IsZeroSeq(all) THEN [int |-> <<>>, frac |-> <<>>]
    ELSE Kept(all, point, rest,
              52 + CHOOSE i \in 1..Len(all) :
                       all[i] = 1 /\ \A j \in 1..(i - 1) : all[j] = 0)

\* the integer bits ib followed by the fraction bits of gen
Joined(ib, gen) == Significant(ib \o gen.bits, Len(ib), ~ IsZeroSeq(gen.rest))

\* the fraction bits a double can hold after the integer bits ib: none
\* when ib fills its 53 bits and the rounding bit
Fraction(ib, FD) == Joined(ib, FracBits(FD, IF Len(ib) >= 54 THEN 0 ELSE FracLen))

\* The IEEE 754 double nearest to ID.FD (decimal digits of the integer and
\* of the fraction), ties to even: 53 significant bits.  The result is the
\* bits before and after the binary point.
RoundToDouble(ID, FD) == Fraction(IntBits(ID), FD)

\* the decimal digits of D * 2^(hi-lo+1) + the integer with bits B[lo..hi]
RECURSIVE BitsToDec(_, _, _, _)
BitsToDec(B, lo, hi, D) ==
    IF lo > hi THEN D
    ELSE IF lo = hi
    THEN LET t == TimesTwoPlus(D, B[lo])
         IN  IF t.carry = 0 THEN t.digits ELSE <<t.carry>> \o t.digits
    ELSE LET mid  == (lo + hi) \div 2
             left == BitsToDec(B, lo, mid, D)
         IN  Strict(left, BitsToDec(B, mid + 1, hi, left))

\* D + 1 on decimal digits
IncDec(D) ==
    IF \A i \in 1..Len(D) : D[i] = 9 THEN <<1>> \o Zeros(Len(D))
    ELSE LET z == CHOOSE i \in 1..Len(D) :
                      D[i] # 9 /\ \A j \in (i + 1)..Len(D) : D[j] = 9
         IN  <<>> \o [i \in 1..Len(D) |->
                        IF i < z THEN D[i] ELSE IF i = z THEN D[i] + 1 ELSE 0]

\* 100 * 0.fr on the bits fr[lo..hi] with carry c from the bits after them:
\* the carry out, and the bits of the rest
RECURSIVE TimesHundred(_, _, _, _)
TimesHundred(fr, lo, hi, c) ==
    IF lo > hi THEN [carry |-> c, bits |-> <<>>]
    ELSE IF lo = hi THEN [carry |-> (100 * fr[lo] + c) \div 2,
                          bits  |-> <<(100 * fr[lo] + c) % 2>>]
    ELSE LET mid   == (lo + hi) \div 2
             right == TimesHundred(fr, mid + 1, hi, c)
             left  == TimesHundred(fr, lo, mid, right.carry)
         IN  Strict(right, [carry |-> left.carry,
                            bits  |-> left.bits \o right.bits])

\* 100 * 0.fr for fraction bits fr: the integer part h, and whether the
\* rest rounds h up (more than a half, or a half and h odd)
Hundredths(fr) ==
    LET r == TimesHundred(fr, 1, Len(fr), 0)
    IN  [h  |-> r.carry,
         up |-> Len(r.bits) >= 1 /\ r.bits[1] = 1
                /\ ((\E j \in 2..Len(r.bits) : r.bits[j] = 1) \/ r.carry % 2 = 1)]

\* the characters of the decimal digits D
DigitString(D) == <<>> \o [i \in 1..Len(D) |-> DigitChar(D[i])]

\* the integer with decimal digits dec and h hundredths, h = 100 carrying
\* into the integer, printed with its sign
Printed(neg, dec, h) ==
    (IF neg THEN <<"-">> ELSE <<>>)
    \o DigitString(IF h = 100 THEN IncDec(dec)
                   ELSE IF dec = <<>> THEN <<0>> ELSE dec)
    \o <<".", DigitChar((h % 100) \div 10), DigitChar(h % 10)>>

\* the hundredths hu, rounded
Cents(hu) == IF hu.up THEN hu.h + 1 ELSE hu.h

\* format(x, '.2f') of the double with bits int.frac
FixedTwo(neg, int, frac) ==
    Printed(neg, BitsToDec(int, 1, Len(int), <<>>), Cents(Hundredths(frac)))

\* a run of digits of a float() numeral: decimal digits, single underscores
\* allowed between two digits
IsDigitGroup(g) ==
    /\ g # <<>>
    /\ \A i \in 1..Len(g) : g[i] \in DecimalDigits \cup {"_"}
    /\ g[1] # "_" /\ g[Len(g)] # "_"
    /\ \A i \in 1..(Len(g) - 1) : ~ (g[i] = "_" /\ g[i + 1] = "_")

DigitsOf(g) ==
    LET d == SelectSeq(g, LAMBDA c : c # "_")
    IN  <<>> \o [i \in 1..Len(d) |-> DigitValue(d[i])]

\* what format() prints for an infinite double
Infinite(neg) == (IF neg THEN <<"-">> ELSE <<>>) \o <<"i", "n", "f">>

\* format(x, '.2f') of the double x: inf when it is beyond 1024 bits
Formatted(neg, x) ==
    IF Len(x.int) > 1024 THEN Infinite(neg) ELSE FixedTwo(neg, x.int, x.frac)

\* The numeral with decimal digits D whose first non-zero digit is worth
\* 10^(lead-1), the point after the first P digits (P may lie before or
\* after the digits), rounded to a double.  A leading digit below 10^-30
\* prints as zero; one beyond 10^309 is past the largest double, which the
\* result shows by an integer part of more than 1024 bits.
Placed(D, P, lead) ==
    IF IsZeroSeq(D) \/ lead < 0 - 30 THEN [int |-> <<>>, frac |-> <<>>]
    ELSE IF lead > 310 THEN [int |-> Zeros(1025), frac |-> <<>>]
    ELSE RoundToDouble(IF P <= 0 THEN <<>>
                       ELSE IF P >= Len(D) THEN D \o Zeros(P - Len(D))
                       ELSE SubSeq(D, 1, P),
                       IF P <= 0 THEN Zeros(0 - P) \o D
                       ELSE IF P >= Len(D) THEN <<>>
                       ELSE SubSeq(D, P + 1, Len(D)))

\* the numeral with digits D and the point after the first P, as printed
Scaled(neg, D, P) ==
    Formatted(neg, Placed(D, P, P - Len(D) + Len(DropLeadingZeros(D))))

\* the exponent float() takes for one written with more than nine digits
MAX_ABS_EXP == 1100000000

\* the most digits float() takes, counted without the leading zeros, and
\* the most digits after the point
MAX_DIGITS == 1000000000

\* the value of the exponent digits ed, leading zeros dropped
Exponent(ed) ==
    IF Len(ed) > 9 THEN MAX_ABS_EXP ELSE ToNat(DigitString(ed))

\* the numeral with integer digits I (leading zeros dropped), fraction
\* digits F and exponent e: ValueError when it has too many digits
Counted(neg, I, F, e) ==
    IF \/ (IF I # <<>> THEN Len(I) + Len(F) ELSE Len(DropLeadingZeros(F)))
              > MAX_DIGITS
       \/ Len(F) > MAX_DIGITS
    THEN Raise("ValueError")
    ELSE Ok(Scaled(neg, I \o F, Len(I) + e))

\* the numeral with integer digits ip, fraction digits fp and, when hasExp,
\* an exponent of digits edigs, negative when eneg
Numeral(neg, ip, fp, hasExp, eneg, edigs) ==
    IF \/ (ip = <<>> /\ fp = <<>>)
       \/ (ip # <<>> /\ ~ IsDigitGroup(ip))
       \/ (fp # <<>> /\ ~ IsDigitGroup(fp))
       \/ (hasExp /\ ~ IsDigitGroup(edigs))
    THEN Raise("ValueError")
    ELSE Counted(neg, DropLeadingZeros(DigitsOf(ip)), DigitsOf(fp),
                 IF ~ hasExp THEN 0
                 ELSE IF eneg
                 THEN 0 - Exponent(DropLeadingZeros(DigitsOf(edigs)))
                 ELSE Exponent(DropLeadingZeros(DigitsOf(edigs))))

\* mantissa and exponent: the mantissa has at most one point, the exponent
\* an optional sign
Mantissa(neg, parts, hasExp, etail) ==
    IF Len(parts) > 2 THEN Raise("ValueError")
    ELSE Numeral(neg, parts[1], IF Len(parts) = 2 THEN parts[2] ELSE <<>>,
                 hasExp, etail # <<>> /\ etail[1] = "-",
                 IF etail # <<>> /\ etail[1] \in {"+", "-"}
                 THEN Tail(etail) ELSE etail)

\* the numeral after its sign: inf, infinity or nan (any case), or digits
\* with an optional point and, after e or E, an exponent
Unsigned(neg, body) ==
    IF lower(body) \in {<<"i","n","f">>, <<"i","n","f","i","n","i","t","y">>}
    THEN Ok(Infinite(neg))
    ELSE IF lower(body) = <<"n","a","n">> THEN Ok(<<"n","a","n">>)
    ELSE Mantissa(neg, split(SubSeq(body, 1, FirstIn(body, {"e", "E"}) - 1), "."),
                  FirstIn(body, {"e", "E"}) <= Len(body),
                  SubSeq(body, FirstIn(body, {"e", "E"}) + 1, Len(body)))

\* float(s) for s without the whitespace around it: an optional sign first
Signed(s) ==
    Unsigned(s # <<>> /\ s[1] = "-",
             IF s # <<>> /\ s[1] \in {"+", "-"} THEN Tail(s) ELSE s)

\* format(float(value), '.2f').  float() takes, between optional whitespace,
\* an optional sign and then inf, infinity or nan (any case), or digits with
\* an optional point and an optional exponent; anything else raises
\* ValueError.  The value is rounded to the nearest double and the double
\* is printed with two fractional digits, ties to even.
format_float_2f(value) == Signed(strip(value))

\* ------------------------------------------------------------------------
\* What one call does to the world: how it ends, and what it wrote
\* ------------------------------------------------------------------------
\*   outcome  "return" (value returned), "exit" (SystemExit raised by
\*            sys.exit), "raise" (any other exception, named by exc)
\*   value    the returned value, as a sequence (None is <<>>)
\*   log      entries appended to logs/ingest_csv_py_log.txt
\*   printed  lines written to standard output
\*   handed   dicts passed to insert_into_db
\*   stmts    statements passed to cur.execute
\*   rows     rows committed to the expenditures table
Return(v) ==
    [outcome |-> "return", exc |-> "", value |-> v, log |-> <<>>,
     printed |-> <<>>, handed |-> <<>>, stmts |-> <<>>, rows |-> <<>>]

Uncaught(e) ==
    [outcome |-> "raise", exc |-> e, value |-> <<>>, log |-> <<>>,
     printed |-> <<>>, handed |-> <<>>, stmts |-> <<>>, rows |-> <<>>]

\* log_error_and_exit(error): append "<now> - Error message: <error>" to the
\* log file, then sys.exit(error_output)
log_error_and_exit(error) ==
    [outcome |-> "exit", exc |-> "SystemExit", value |-> <<>>,
     log |-> << [timestamp |-> "datetime.now()", error |-> error] >>,
     printed |-> <<>>, handed |-> <<>>, stmts |-> <<>>, rows |-> <<>>]

\* normalize_entry(value): the first statement calls str.translate with two
\* arguments; a Python 3 str accepts exactly one, so the call raises
\* TypeError whatever the value is and nothing after it runs.
normalize_entry(value) == Raise("TypeError")

\* normalize_column_names, from position i on, with the names collected so far
RECURSIVE normalize_from(_, _, _)
normalize_from(header_row, i, column_names) ==
    IF i > Len(header_row) THEN Return(column_names)
    ELSE IF header_row[i] \in DOMAIN expenditure_column_conversions
    THEN normalize_from(header_row, i + 1,
             Append(column_names, expenditure_column_conversions[header_row[i]]))
    ELSE [log_error_and_exit(<<"KeyError", header_row[i]>>)
             EXCEPT !.printed = << <<"No matching entry for", header_row[i]>> >>]

\* a faulty variant: an unknown label is skipped instead of ending the run
RECURSIVE normalize_skipping(_, _, _)
normalize_skipping(header_row, i, column_names) ==
    IF i > Len(header_row) THEN Return(column_names)
    ELSE IF header_row[i] \in DOMAIN expenditure_column_conversions
    THEN normalize_skipping(header_row, i + 1,
             Append(column_names, expenditure_column_conversions[header_row[i]]))
    ELSE normalize_skipping(header_row, i + 1, column_names)

normalize_column_names_skip(header_row) == normalize_skipping(header_row, 1, <<>>)

\* normalize_column_names(header_row)
normalize_column_names(header_row) == normalize_from(header_row, 1, <<>>)

\* The per-field rules of process_row (the if/elif chain on key)
normalize_value(key, value) ==
    IF key = "start_date" \/ key = "end_date" \/ key = "record_date"
    THEN strptime(value)
    ELSE IF key = "fiscal_year" /\ ~ isdigit(value)
    THEN LET split_val == split_whitespace(value)
         IN  IF split_val = <<>> THEN Raise("IndexError")
             ELSE Ok(PyStr(split_val[Len(split_val)]))
    ELSE IF key = "amount"
    THEN AsStr(format_float_2f(value))
    ELSE IF key = "office"
    THEN IF Len(value) > 4 /\ isnumeric(SubSeq(value, 1, 4))
         THEN normalize_entry(SubSeq(value, 5, Len(value)))
         ELSE Ok(PyStr(value))
    ELSE IF key = "payee" \/ key = "original_recipient" \/ key = "old_payee"
    THEN normalize_entry(value)
    ELSE Ok(PyStr(value))

\* d[key] = value on an insertion-ordered dict
dict_set(d, key, value) ==
    IF \E j \in 1..Len(d) : d[j][1] = key
    THEN [j \in 1..Len(d) |-> IF d[j][1] = key THEN <<key, value>> ELSE d[j]]
    ELSE Append(d, <<key, value>>)

dict_keys(d) == [j \in 1..Len(d) |-> d[j][1]]

dict_values(d) == [j \in 1..Len(d) |-> d[j][2]]

\* The loop of process_row from position i on (i is 1-based), with the dict
\* built so far
RECURSIVE build_record(_, _, _, _)
build_record(expense_row, column_names, i, row_keys_values) ==
    IF i > Len(expense_row) THEN Ok(row_keys_values)
    ELSE IF i > Len(column_names) THEN Raise("IndexError")
    ELSE LET r == normalize_value(column_names[i], expense_row[i])
         IN  IF ~ r.ok THEN r
             ELSE build_record(expense_row, column_names, i + 1,
                      IF Truthy(r.val)
                      THEN dict_set(row_keys_values, column_names[i], r.val)
                      ELSE row_keys_values)

\* The store as the code sees it: the connection and the statement succeed,
\* or psycopg2.connect raises, or execute/fetchone/commit raises.
DbBehaviours == {"ok", "connect_error", "execute_error"}

Identifier(n) == [kind |-> "Identifier", text |-> n]

\* insert_into_db(key_val_dict) against a store behaving as db, whose next
\* generated id is next_id
insert_into_db(key_val_dict, db, next_id) ==
    LET keys   == dict_keys(key_val_dict)
        values == dict_values(key_val_dict)
        query  == [columns |-> [j \in 1..Len(keys) |-> Identifier(keys[j])],
                   values  |-> [j \in 1..Len(values) |-> Identifier(values[j].v)],
                   params  |-> <<>>]
    IN  IF db = "connect_error"
        THEN [Uncaught("psycopg2.OperationalError")
                 EXCEPT !.handed = <<key_val_dict>>]
        ELSE IF \E j \in 1..Len(values) : values[j].t # "str"
        THEN [Uncaught("TypeError") EXCEPT !.handed = <<key_val_dict>>]
        ELSE IF db = "execute_error"
        THEN [log_error_and_exit(<<"psycopg2.Error">>)
                 EXCEPT !.handed = <<key_val_dict>>, !.stmts = <<query>>]
        ELSE [Return(<<next_id>>)
                 EXCEPT !.handed = <<key_val_dict>>, !.stmts = <<query>>,
                        !.rows = << [id |-> next_id, fields |-> key_val_dict] >>]

\* a Python list / str passed as the row argument
PyList(cells) == [t |-> "list", v |-> cells]

\* process_row(row, column_names).  row.split(',') exists only on a str: a
\* list (what csv.reader yields) raises AttributeError on the first line.
process_row(row, column_names, db, next_id) ==
    IF row.t # "str" THEN Uncaught("AttributeError")
    ELSE LET expense_row == split(row.v, ",")
             built       == build_record(expense_row, column_names, 1, <<>>)
         IN  IF ~ built.ok THEN Uncaught(built.exc)
             ELSE insert_into_db(built.val, db, next_id)

\* ------------------------------------------------------------------------
\* Inputs
\* ------------------------------------------------------------------------
SeqsUpTo(S, n) == UNION {[1..k -> S] : k \in 0..n}

\* One line of a csv file as csv.reader delivers it: a list of cells, or a
\* line on which the reader raises csv.Error.
Line(cells) == [csv_error |-> FALSE, cells |-> cells]

BadLine == [csv_error |-> TRUE, cells |-> <<>>]

\* a blank line, three header lines, a line of data, an unreadable line
Lines ==
    { Line(<<>>), Line(<<"AMOUNT">>), Line(<<"OFFICE", "AMOUNT">>),
      Line(<<"BOGUS">>), Line(<<"12.5">>), BadLine }

FileContents == SeqsUpTo(Lines, MaxRows)

\* Cell values of a data row
CellEmpty == <<>>

CellSpace == <<" ">>

CellPrefixed == <<"0","0","0","1","J","o","h","n"," ","S","m","i","t","h">>

CellFourDigits == <<"0","0","0","1">>

CellNoPrefix == <<"N","o","P","r","e","f","i","x","H","e","r","e">>

CellFiscalYear == <<"F","Y"," ","2","0","1","5">>

CellAmount == <<"1","2","3","4",".","5">>

CellDate == <<"J","a","n","u","a","r","y","-","0","5","-","2","0","1","5">>

CellBadDate == <<"1","3","-","0","5","-","2","0","1","5">>

Cells ==
    { CellEmpty, CellSpace, CellPrefixed, CellFourDigits, CellNoPrefix,
      CellFiscalYear, CellAmount, CellDate, CellBadDate }

\* A direct call of one function of the module
CallOf(fn, header_row, row, column_names, value) ==
    [fn |-> fn, header_row |-> header_row, row |-> row,
     column_names |-> column_names, value |-> value,
     key_val_dict |-> <<>>, error |-> <<>>]

NoCall == CallOf("", <<>>, PyStr(<<>>), <<>>, <<>>)

HeaderCalls ==
    { CallOf("normalize_column_names", h, PyStr(<<>>), <<>>, <<>>) :
        h \in SeqsUpTo(HeaderLabels \cup {"BOGUS"}, MaxCols) }

\* process_row on a str row: the cells joined by commas
RowCalls ==
    { CallOf("process_row", <<>>, PyStr(join(cells, ",")), cols, <<>>) :
        cells \in SeqsUpTo(Cells, MaxCells) \ {<<>>},
        cols \in SeqsUpTo(CanonicalFields, MaxCols) }

EntryCalls ==
    { CallOf("normalize_entry", <<>>, PyStr(<<>>), <<>>, v) : v \in Cells }

\* dicts handed to insert_into_db: empty, str values, a datetime value
Dicts ==
    { <<>>,
      << <<"amount", PyStr(<<"1","2",".","5","0">>)>> >>,
      << <<"purpose", PyStr(CellNoPrefix)>>, <<"fiscal_year", PyStr(<<"2","0","1","5">>)>> >>,
      << <<"record_date", PyDatetime(2015, 1, 5)>> >> }

InsertCalls ==
    { [NoCall EXCEPT !.fn = "insert_into_db", !.key_val_dict = d] : d \in Dicts }

\* errors handed to log_error_and_exit
LogCalls ==
    { [NoCall EXCEPT !.fn = "log_error_and_exit", !.error = e] :
        e \in { <<"KeyError", "BOGUS">>, <<"csv.Error", 1, 2>>,
                <<"psycopg2.Error">> } }

\* ------------------------------------------------------------------------
\* State
\* ------------------------------------------------------------------------
VARIABLES
    files,          \* process_csvs: the files argument, each file its lines
    file_idx,       \* number of files opened so far (the current one included)
    line_num,       \* reader.line_num: lines of the current file consumed
    column_names,   \* process_csvs: the local column_names ('' is <<>>)
    pc,             \* where the process is, or how it ended
    log,            \* logs/ingest_csv_py_log.txt
    out,            \* standard output
    store,          \* committed rows of the expenditures table
    handled,        \* history: how each consumed line was treated
    call,           \* the function called directly (unit runs)
    ret             \* what the last call did

vars == <<files, file_idx, line_num, column_names, pc, log, out, store,
          handled, call, ret>>

\* a call's writes reach the log, standard output and the store
Apply(eff) ==
    /\ ret' = eff
    /\ log' = log \o eff.log
    /\ out' = out \o eff.printed
    /\ store' = store \o eff.rows

\* how the process goes on after a call that did not return
Ended(eff) == IF eff.outcome = "exit" THEN "exit" ELSE "crash"

\* ------------------------------------------------------------------------
\* process_csvs(files)
\* ------------------------------------------------------------------------
Init ==
    /\ files \in SeqsUpTo(FileContents, MaxFiles)
    /\ file_idx = 0
    /\ line_num = 0
    /\ column_names = <<>>
    /\ pc = "loop"
    /\ log = <<>>
    /\ out = <<>>
    /\ store = <<>>
    /\ handled = <<>>
    /\ call = NoCall
    /\ ret = Return(<<>>)

\* for file in files: column_names = ''; open the file (which exists and is
\* readable); reader = csv.reader(f)
OpenFile ==
    /\ pc = "loop"
    /\ file_idx < Len(files)
    /\ file_idx' = file_idx + 1
    /\ line_num' = 0
    /\ column_names' = <<>>
    /\ pc' = "reading"
    /\ UNCHANGED <<files, log, out, store, handled, call, ret>>

\* the next line of the current file
NextLine == files[file_idx][line_num + 1]

HasLine == pc = "reading" /\ line_num < Len(files[file_idx])

\* a row read while "not column_names": column_names = normalize_column_names(row)
ReadHeader ==
    /\ HasLine
    /\ ~ NextLine.csv_error
    /\ column_names = <<>>
    /\ LET eff == normalize_column_names(NextLine.cells)
       IN  /\ Apply(eff)
           /\ column_names' = IF eff.outcome = "return" THEN eff.value ELSE column_names
           /\ pc' = IF eff.outcome = "return" THEN pc ELSE Ended(eff)
    /\ line_num' = line_num + 1
    /\ handled' = Append(handled, [file |-> file_idx, line |-> line_num + 1,
                                   as |-> "header", with |-> <<>>])
    /\ UNCHANGED <<files, file_idx, call>>

\* a row read otherwise: expense_id = process_row(row, column_names); print(expense_id)
ReadData ==
    /\ HasLine
    /\ ~ NextLine.csv_error
    /\ column_names # <<>>
    /\ \E db \in DbBehaviours :
         LET eff == process_row(PyList(NextLine.cells), column_names, db,
                                Len(store) + 1)
         IN  /\ Apply(IF eff.outcome = "return"
                      THEN [eff EXCEPT !.printed = << <<"id", eff.value>> >>]
                      ELSE eff)
             /\ pc' = IF eff.outcome = "return" THEN pc ELSE Ended(eff)
    /\ line_num' = line_num + 1
    /\ handled' = Append(handled, [file |-> file_idx, line |-> line_num + 1,
                                   as |-> "data", with |-> column_names])
    /\ UNCHANGED <<files, file_idx, column_names, call>>

\* except csv.Error as e: log_error_and_exit((e, file, reader.line_num))
ReadError ==
    /\ HasLine
    /\ NextLine.csv_error
    /\ Apply(log_error_and_exit(<<"csv.Error", file_idx, line_num + 1>>))
    /\ line_num' = line_num + 1
    /\ pc' = "exit"
    /\ UNCHANGED <<files, file_idx, column_names, handled, call>>

\* the reader is exhausted: the with block closes the file
CloseFile ==
    /\ pc = "reading"
    /\ line_num = Len(files[file_idx])
    /\ pc' = "loop"
    /\ UNCHANGED <<files, file_idx, line_num, column_names, log, out, store,
                   handled, call, ret>>

\* after the last file: print("{} files processed successfully!")
Summary ==
    /\ pc = "loop"
    /\ file_idx = Len(files)
    /\ out' = Append(out, <<"summary", Len(files)>>)
    /\ pc' = "done"
    /\ UNCHANGED <<files, file_idx, line_num, column_names, log, store,
                   handled, call, ret>>

Next == OpenFile \/ ReadHeader \/ ReadData \/ ReadError \/ CloseFile \/ Summary

Spec == Init /\ [][Next]_vars

\* ------------------------------------------------------------------------
\* One function called directly
\* ------------------------------------------------------------------------
InitUnit ==
    /\ call \in HeaderCalls \cup RowCalls \cup EntryCalls \cup InsertCalls \cup LogCalls
    /\ files = <<>>
    /\ file_idx = 0
    /\ line_num = 0
    /\ column_names = <<>>
    /\ pc = "call"
    /\ log = <<>>
    /\ out = <<>>
    /\ store = <<>>
    /\ handled = <<>>
    /\ ret = Return(<<>>)

Call_normalize_column_names ==
    /\ pc = "call"
    /\ call.fn = "normalize_column_names"
    /\ LET eff == normalize_column_names(call.header_row)
       IN  /\ Apply(eff)
           /\ pc' = IF eff.outcome = "return" THEN "returned" ELSE Ended(eff)
    /\ UNCHANGED <<files, file_idx, line_num, column_names, handled, call>>

Call_process_row ==
    /\ pc = "call"
    /\ call.fn = "process_row"
    /\ \E db \in DbBehaviours :
         LET eff == process_row(call.row, call.column_names, db, Len(store) + 1)
         IN  /\ Apply(eff)
             /\ pc' = IF eff.outcome = "return" THEN "returned" ELSE Ended(eff)
    /\ UNCHANGED <<files, file_idx, line_num, column_names, handled, call>>

Call_normalize_entry ==
    /\ pc = "call"
    /\ call.fn = "normalize_entry"
    /\ LET r == normalize_entry(call.value)
       IN  /\ Apply(IF r.ok THEN Return(<<r.val>>) ELSE Uncaught(r.exc))
           /\ pc' = IF r.ok THEN "returned" ELSE "crash"
    /\ UNCHANGED <<files, file_idx, line_num, column_names, handled, call>>

Call_insert_into_db ==
    /\ pc = "call"
    /\ call.fn = "insert_into_db"
    /\ \E db \in DbBehaviours :
         LET eff == insert_into_db(call.key_val_dict, db, Len(store) + 1)
         IN  /\ Apply(eff)
             /\ pc' = IF eff.outcome = "return" THEN "returned" ELSE Ended(eff)
    /\ UNCHANGED <<files, file_idx, line_num, column_names, handled, call>>

Call_log_error_and_exit ==
    /\ pc = "call"
    /\ call.fn = "log_error_and_exit"
    /\ Apply(log_error_and_exit(call.error))
    /\ pc' = "exit"
    /\ UNCHANGED <<files, file_idx, line_num, column_names, handled, call>>

NextUnit ==
    \/ Call_normalize_column_names
    \/ Call_process_row
    \/ Call_normalize_entry
    \/ Call_insert_into_db
    \/ Call_log_error_and_exit

SpecUnit == InitUnit /\ [][NextUnit]_vars

\* ------------------------------------------------------------------------
\* Properties
\* ------------------------------------------------------------------------
Terminated == pc \in {"done", "returned", "exit", "crash"}

Failed == pc \in {"exit", "crash"}

IdsPrinted == SelectSeq(out, LAMBDA e : e[1] = "id")

SummariesPrinted == SelectSeq(out, LAMBDA e : e[1] = "summary")

TotalLines(n) == Cardinality({p \in (1..n) \X (1..MaxRows) :
                                 p[2] <= Len(files[p[1]])})

\* lines after the first one, in the files before file f and before line l of
\* file f
DataLinesBefore(f, l) ==
    Cardinality({p \in (1..Len(files)) \X (2..MaxRows) :
                    /\ p[2] <= Len(files[p[1]])
                    /\ (p[1] < f \/ (p[1] = f /\ p[2] < l))})

\* C4: normalize_column_names maps a header row of known labels to the
\* canonical names, same length, same order; on a row with an unknown label
\* it returns nothing: it ends the run through log_error_and_exit, the log
\* entry naming the first unknown label.
C4_HeaderNormalization ==
    (call.fn = "normalize_column_names" /\ pc # "call") =>
        LET h == call.header_row
            unknown == {i \in 1..Len(h) : h[i] \notin HeaderLabels}
        IN  IF unknown = {}
            THEN /\ pc = "returned"
                 /\ Len(ret.value) = Len(h)
                 /\ \A i \in 1..Len(h) :
                        ret.value[i] = expenditure_column_conversions[h[i]]
                 /\ log = <<>>
            ELSE /\ pc = "exit"
                 /\ ret.value = <<>>
                 /\ Len(log) = 1
                 /\ log[1].timestamp = "datetime.now()"
                 /\ \E i \in unknown :
                        /\ \A j \in unknown : i <= j
                        /\ log[1].error = <<"KeyError", h[i]>>

\* C4 witness: a known label followed by an unknown one ended the run
C4_Witness ==
    /\ call.fn = "normalize_column_names"
    /\ call.header_row = <<"AMOUNT", "BOGUS">>
    /\ pc = "exit"

\* the header of file f is known, non-empty, and every later line has as
\* many cells as the header, each amount cell a decimal numeral
WellFormedFile(f) ==
    LET file == files[f]
    IN  /\ \A l \in 1..Len(file) : ~ file[l].csv_error
        /\ Len(file) >= 1 =>
              /\ file[1].cells # <<>>
              /\ \A i \in 1..Len(file[1].cells) : file[1].cells[i] \in HeaderLabels
              /\ \A l \in 2..Len(file) :
                    /\ Len(file[l].cells) = Len(file[1].cells)
                    /\ \A i \in 1..Len(file[1].cells) :
                          file[1].cells[i] = "AMOUNT" => file[l].cells[i] = "12.5"

\* the summary is printed at most once, as the last line, with the number of
\* files, exactly when every line of every file was consumed with no fatal
\* error; a failed run prints no summary
SummaryOnce ==
    /\ Len(SummariesPrinted) <= 1
    /\ (SummariesPrinted # <<>>) <=> (pc = "done")
    /\ pc = "done" =>
          /\ out[Len(out)] = <<"summary", Len(files)>>
          /\ file_idx = Len(files)
          /\ Len(handled) = TotalLines(Len(files))
          /\ log = <<>>
    /\ Failed => SummariesPrinted = <<>>

\* the data lines handed to process_row so far
DataLinesHandled == Cardinality({k \in 1..Len(handled) : handled[k].as = "data"})

\* the last call was ended by the store: psycopg2.connect raised, or the
\* statement was executed and refused
StoreRefused ==
    /\ Failed
    /\ \/ ret.exc = "psycopg2.OperationalError"
       \/ (pc = "exit" /\ ret.stmts # <<>>)

\* C8: the ids printed are the ids the store generated, one per committed
\* record, in insertion order; over well-formed files every data line the
\* store did not refuse is such a record, so its id is on the output once
\* the line has been handled; and the summary is printed at most once, as
\* the last line, with the number of files, exactly when every line of
\* every file was consumed with no fatal error, never after a fatal error.
C8_IdsAndSummary ==
    /\ Len(IdsPrinted) = Len(store)
    /\ \A i \in 1..Len(store) : IdsPrinted[i][2] = <<store[i].id>>
    /\ (\A f \in 1..Len(files) : WellFormedFile(f)) =>
          Len(IdsPrinted) = DataLinesHandled - (IF StoreRefused THEN 1 ELSE 0)
    /\ SummaryOnce

\* The cells of the str row of a process_row call
CallCells == split(call.row.v, ",")

RowCallDone == call.fn = "process_row" /\ pc # "call"

\* C1: every fatal error takes the log-and-exit path: whenever process_row
\* or normalize_column_names ends the process (unknown header, date or
\* amount that does not parse, row longer than the header, store failure),
\* it does so through log_error_and_exit, which has appended one timestamped
\* entry to the log, whatever the kind of error.
C1_EveryErrorLogged ==
    (Failed /\ call.fn \in {"process_row", "normalize_column_names"}
            /\ ret.exc \in {"SystemExit", "ValueError", "IndexError",
                            "psycopg2.OperationalError"}) =>
        /\ pc = "exit"
        /\ ret.outcome = "exit"
        /\ Len(log) = 1
        /\ log[1].timestamp = "datetime.now()"

\* C2: over well-formed files, lines are consumed file by file and line by
\* line; line 1 of a file is treated as the header and every later line as
\* data; and the run ends with one committed insert per data line, in order
\* (or stops at a statement the store refused).
C2_OneInsertPerDataRow ==
    (\A f \in 1..Len(files) : WellFormedFile(f)) =>
        /\ \A k \in 1..Len(handled) :
              handled[k].as = IF handled[k].line = 1 THEN "header" ELSE "data"
        /\ \A k \in 1..(Len(handled) - 1) :
              \/ /\ handled[k + 1].file = handled[k].file
                 /\ handled[k + 1].line = handled[k].line + 1
              \/ /\ handled[k + 1].file > handled[k].file
                 /\ handled[k + 1].line = 1
        /\ Terminated =>
              \/ /\ pc = "done"
                 /\ Len(store) = DataLinesBefore(Len(files) + 1, 1)
                 /\ \A i \in 1..Len(store) : store[i].id = i
              \/ /\ pc = "exit"
                 /\ ret.stmts # <<>>

\* C3: when the run is ended by a fatal error at a data line, the store
\* holds one committed record for each data line before it, in all files
\* read so far, and none for the failing line.
C3_RecordsBeforeFailurePersist ==
    (Failed /\ line_num > 1) =>
        Len(store) = DataLinesBefore(file_idx, line_num)

\* C5: a dict handed to insert_into_db holds no empty value; and a row with
\* as many cells as columns, the columns distinct, whose blank cells are in
\* any fields and whose other cells are in fields without a parsing rule,
\* is handed over as the dict of exactly the fields with a non-blank cell.
PlainFields ==
    {"bioguide_id", "fiscal_quarter", "sort_sequence", "program_type",
     "expense_category", "purpose"}

C5_BlankCellsDropped ==
    RowCallDone =>
        /\ \A k \in 1..Len(ret.handed) : \A j \in 1..Len(ret.handed[k]) :
              Truthy(ret.handed[k][j][2])
        /\ LET cols == call.column_names
           IN  ( /\ Len(CallCells) = Len(cols)
                 /\ \A i, j \in 1..Len(cols) : cols[i] = cols[j] => i = j
                 /\ \E i \in 1..Len(cols) : CallCells[i] = <<>>
                 /\ \A i \in 1..Len(cols) :
                       CallCells[i] # <<>> => cols[i] \in PlainFields )
               => /\ Len(ret.handed) = 1
                  /\ {ret.handed[1][j][1] : j \in 1..Len(ret.handed[1])}
                       = {cols[i] : i \in {n \in 1..Len(cols) : CallCells[n] # <<>>}}

\* C6: a row whose number of cells differs from the number of columns is
\* rejected through log_error_and_exit and nothing is inserted for it.
C6_LengthMismatchRejected ==
    (RowCallDone /\ Len(CallCells) # Len(call.column_names)) =>
        /\ pc = "exit"
        /\ Len(log) = 1
        /\ ret.stmts = <<>>
        /\ store = <<>>

\* C7: the statement executed for a dict lists exactly the dict's keys as
\* column identifiers, all canonical fields, and carries the dict's values
\* as bound parameters behind placeholders, never as identifiers.
C7_ValuesBoundAsParameters ==
    RowCallDone =>
        \A k \in 1..Len(ret.stmts) :
            LET q == ret.stmts[k]
                d == ret.handed[k]
            IN  /\ q.columns = [j \in 1..Len(d) |-> Identifier(d[j][1])]
                /\ \A j \in 1..Len(d) : d[j][1] \in CanonicalFields
                /\ Len(q.values) = Len(d)
                /\ \A j \in 1..Len(d) : q.values[j].kind = "Placeholder"
                /\ q.params = dict_values(d)

\* Text normalization as section 4.2 of the specification words it, on the
\* characters the cell values are made of: listed punctuation removed,
\* whitespace runs collapsed and trimmed, title case
IsLetter(c) == \E i \in 1..26 : c = Lowers[i] \/ c = Uppers[i]

ToUpper(c) == IF \E i \in 1..26 : c = Lowers[i]
              THEN Uppers[CHOOSE i \in 1..26 : c = Lowers[i]] ELSE c

TitleCase(s) ==
    [i \in 1..Len(s) |->
        IF i = 1 \/ ~ IsLetter(s[IF i = 1 THEN 1 ELSE i - 1])
        THEN ToUpper(s[i]) ELSE ToLower(s[i])]

TextNormalization(s) ==
    TitleCase(join(split_whitespace(
        SelectSeq(s, LAMBDA c : c \notin {".", ",", "!", "?", "="})), " "))

\* C9: for a row of the single column office, a value longer than four
\* characters that starts with four digits is handed over with the four
\* digits stripped and text normalization applied; any other value is
\* handed over unchanged (a blank one is dropped).
C9_OfficePrefix ==
    (RowCallDone /\ call.column_names = <<"office">> /\ Len(CallCells) = 1) =>
        LET v == CallCells[1]
            expected == IF Len(v) > 4 /\ isnumeric(SubSeq(v, 1, 4))
                        THEN TextNormalization(SubSeq(v, 5, Len(v)))
                        ELSE v
        IN  ret.handed = IF expected = <<>> THEN << <<>> >>
                         ELSE << << <<"office", PyStr(expected)>> >> >>

\* C10: column_names is reset for each file, so a data line is decoded with
\* the names of line 1 of its own file; and only line 1 of a file is
\* normalized as a header, also when it yields no names.
C10_HeaderOncePerFile ==
    \A k \in 1..Len(handled) :
        LET h == handled[k]
        IN  /\ (h.as = "header") <=> (h.line = 1)
            /\ h.as = "data" =>
                  h.with = normalize_column_names(files[h.file][1].cells).value

====
